---- MODULE Spec2Model ----
(***************************************************************************)
(* Model of stock_bot.py: the poll cycle check_stock_async, the notifier   *)
(* send_email_notification and the scheduler run_stock_checker_loop.       *)
(* Strings are sequences of one-character strings, so that the label       *)
(* clean-up (str.replace, str.strip), the quantity pattern (re.search) and *)
(* the line formatting (f-string, "\n".join) are computed as the code      *)
(* computes them.                                                          *)
(***************************************************************************)
EXTENDS Integers, Sequences, FiniteSets, TLC

\* ------------------------------------------------------------------ bounds
\* Largest number of item containers page.locator(...).all() returns.
MaxItems == 2

\* -------------------------------------------------------------- constants
\* CHECK_INTERVAL_SECONDS = int(os.environ.get("CHECK_INTERVAL_SECONDS", "120"))
CHECK_INTERVAL_SECONDS == 120

\* ------------------------------------------------------- string constants
Beanstalk == <<"B", "e", "a", "n", "s", "t", "a", "l", "k">>
BurningBud == <<"B", "u", "r", "n", "i", "n", "g", " ", "B", "u", "d">>
GiantPinecone == <<"G", "i", "a", "n", "t", " ", "P", "i", "n", "e", "c", "o", "n", "e">>
SugarApple == <<"S", "u", "g", "a", "r", " ", "A", "p", "p", "l", "e">>
Tomato == <<"T", "o", "m", "a", "t", "o">>
ElderStrawberry == <<"E", "l", "d", "e", "r", " ", "S", "t", "r", "a", "w", "b", "e", "r", "r", "y">>
EmberLily == <<"E", "m", "b", "e", "r", " ", "L", "i", "l", "y">>

\* TARGET_SEEDS (used only through membership tests).
TARGET_SEEDS ==
  {Beanstalk, BurningBud, GiantPinecone, SugarApple, Tomato, ElderStrawberry, EmberLily}

\* The literal removed from every label: seed_name.replace(" Seed", "").
SeedToken == <<" ", "S", "e", "e", "d">>

\* The literal the quantity pattern starts with: r'Stock:\s*(\d+)'.
StockToken == <<"S", "t", "o", "c", "k", ":">>

\* The tail of a line of the notification body: f"{name}: {quantity} available!".
AvailableToken == <<" ", "a", "v", "a", "i", "l", "a", "b", "l", "e", "!">>

Whitespace == {" ", "\t", "\n", "\r"}

Digits == <<"0", "1", "2", "3", "4", "5", "6", "7", "8", "9">>

IsDigit(c) == \E d \in 1..10 : Digits[d] = c

DigitValue(c) == (CHOOSE d \in 1..10 : Digits[d] = c) - 1

\* ------------------------------------------------------- string functions
StartsWith(s, t) == Len(s) >= Len(t) /\ SubSeq(s, 1, Len(t)) = t

\* str.replace(old, ""): every non-overlapping occurrence, left to right.
RECURSIVE Replace(_, _)
Replace(s, old) ==
  IF Len(s) < Len(old) THEN s
  ELSE IF StartsWith(s, old) THEN Replace(SubSeq(s, Len(old) + 1, Len(s)), old)
  ELSE <<Head(s)>> \o Replace(Tail(s), old)

RECURSIVE LStrip(_)
LStrip(s) ==
  IF s # <<>> /\ Head(s) \in Whitespace THEN LStrip(Tail(s)) ELSE s

RECURSIVE RStrip(_)
RStrip(s) ==
  IF s # <<>> /\ s[Len(s)] \in Whitespace THEN RStrip(SubSeq(s, 1, Len(s) - 1)) ELSE s

\* str.strip()
Strip(s) == RStrip(LStrip(s))

\* cleaned_seed_name = seed_name.replace(" Seed", "").strip()
CleanedSeedName(seed_name) == Strip(Replace(seed_name, SeedToken))

\* The longest prefix of s made of characters satisfying the test.
RECURSIVE DigitRun(_)
DigitRun(s) ==
  IF s # <<>> /\ IsDigit(Head(s)) THEN <<Head(s)>> \o DigitRun(Tail(s)) ELSE <<>>

\* int(digits)
RECURSIVE ParseInt(_)
ParseInt(ds) ==
  IF ds = <<>> THEN 0
  ELSE 10 * ParseInt(SubSeq(ds, 1, Len(ds) - 1)) + DigitValue(ds[Len(ds)])

\* The group (\d+) when r'Stock:\s*(\d+)' matches at the start of s, else <<>>.
MatchAt(s) ==
  IF StartsWith(s, StockToken)
  THEN DigitRun(LStrip(SubSeq(s, Len(StockToken) + 1, Len(s))))
  ELSE <<>>

\* re.search: the first position of stock_text at which the pattern matches;
\* the result is the captured digits, <<>> when there is no match.
RECURSIVE Search(_)
Search(stock_text) ==
  IF stock_text = <<>> THEN <<>>
  ELSE IF MatchAt(stock_text) # <<>> THEN MatchAt(stock_text)
  ELSE Search(Tail(stock_text))

\* quantity = int(match.group(1)) if match else 0
Quantity(stock_text) ==
  IF Search(stock_text) # <<>> THEN ParseInt(Search(stock_text)) ELSE 0

\* str(quantity) inside the f-string
RECURSIVE IntToStr(_)
IntToStr(n) ==
  IF n < 10 THEN <<Digits[n + 1]>>
  ELSE IntToStr(n \div 10) \o <<Digits[(n % 10) + 1]>>

\* f"{cleaned_seed_name}: {quantity} available!"
FormatLine(cleaned_seed_name, quantity) ==
  cleaned_seed_name \o <<":", " ">> \o IntToStr(quantity) \o AvailableToken

\* "\n".join(lines)
RECURSIVE Join(_)
Join(lines) ==
  IF lines = <<>> THEN <<>>
  ELSE IF Len(lines) = 1 THEN lines[1]
  ELSE lines[1] \o <<"\n">> \o Join(Tail(lines))

\* ------------------------------------------------------------------ inputs
BeanstalkSeed == Beanstalk \o SeedToken
EmberLilySeed == EmberLily \o SeedToken \o <<"\n">>
CarrotSeed == <<"C", "a", "r", "r", "o", "t">> \o SeedToken
BeanstalkSeedSeed == Beanstalk \o SeedToken \o SeedToken

Stock3 == StockToken \o <<" ", "3">>
Stock0 == StockToken \o <<" ", "0">>
Stock12 == StockToken \o <<"1", "2">>
SoldOut == <<"S", "o", "l", "d", " ", "o", "u", "t">>

\* What one item container gives when its h2 and p sub-elements are read:
\* the two texts, or a fault raised on the way (a Playwright TimeoutError of
\* wait_for, or another exception such as text_content() returning None).
Container(h2, p, fault) == [h2 |-> h2, p |-> p, fault |-> fault]

Containers ==
  { Container(BeanstalkSeed, Stock3, "none"),
    Container(BeanstalkSeed, Stock0, "none"),
    Container(EmberLilySeed, Stock12, "none"),
    Container(EmberLilySeed, SoldOut, "none"),
    Container(CarrotSeed, Stock3, "none"),
    Container(BeanstalkSeedSeed, Stock12, "none"),
    Container(BeanstalkSeed, Stock3, "TimeoutError"),
    Container(EmberLilySeed, Stock12, "Exception") }

\* The lists page.locator(selector).all() can return.
RECURSIVE SeqsUpTo(_, _)
SeqsUpTo(S, n) ==
  IF n = 0 THEN {<<>>}
  ELSE LET shorter == SeqsUpTo(S, n - 1)
       IN shorter \cup {Append(q, x) : q \in {r \in shorter : Len(r) = n - 1}, x \in S}

Snapshots == SeqsUpTo(Containers, MaxItems)

\* The lists used where only the control flow matters: a watched item in
\* stock, an item that is not watched, and a container whose read times out.
LiveSnapshots ==
  SeqsUpTo({ Container(BeanstalkSeed, Stock3, "none"),
             Container(CarrotSeed, Stock3, "none"),
             Container(BeanstalkSeed, Stock3, "TimeoutError") }, MaxItems)

\* How an awaited Playwright call ends.
Results == {"ok", "TimeoutError", "Exception"}

\* How smtplib ends when a delivery is attempted.
SmtpResults == {"sent", "failed"}

\* ------------------------------------------------------------------- state
VARIABLES
  pc,                     \* position of the checker thread
  notified_seeds,         \* the module-level set notified_seeds
  browser,                \* the cycle's browser: "none", "open", "closed"
  seed_items,             \* the containers of the current cycle
  i,                      \* index of the container being processed
  newly_available_seeds,  \* the lines collected in the current cycle
  exc,                    \* exception escaping check_stock_async, if any
  ENABLE_GMAIL_EMAIL,     \* configuration flag
  gmail_config_complete,  \* sender, password and recipient are all set
  outcome,                \* what the current cycle has logged as its result
  start_notified,         \* notified_seeds when the current cycle started
  delta,                  \* <<name, quantity>> entries of the current cycle
  prev_delta,             \* names in the deltas of all earlier cycles
  notifier_calls,         \* calls of send_email_notification in this cycle
  body,                   \* body passed to send_email_notification
  delivery,               \* what send_email_notification did in this cycle
  undelivered,            \* names of every delta whose delivery failed
  loop_caught,            \* the loop's except clause ran for this cycle
  failed_at,              \* the awaited call whose exception ended the try block
  in_flight,              \* calls of check_stock_async started and not yet left
  slept,                  \* durations of the sleeps since the last cycle started
  response                \* what the web server answered last

config == <<ENABLE_GMAIL_EMAIL, gmail_config_complete>>
cycle == <<seed_items, i, newly_available_seeds>>
observed == <<outcome, start_notified, delta, prev_delta, notifier_calls, body,
              delivery, undelivered, loop_caught, failed_at>>
sched == <<in_flight, slept>>
vars == <<pc, notified_seeds, browser, exc, config, cycle, observed, sched,
          response>>

\* Before any request has been answered.
NoResponse == [route |-> "none"]

DeltaNames(d) == {d[k][1] : k \in 1..Len(d)}

Init ==
  /\ pc = "loop"
  /\ notified_seeds = {}
  /\ browser = "none"
  /\ seed_items = <<>>
  /\ i = 1
  /\ newly_available_seeds = <<>>
  /\ exc = "none"
  /\ ENABLE_GMAIL_EMAIL \in BOOLEAN
  /\ gmail_config_complete \in BOOLEAN
  /\ outcome = "none"
  /\ start_notified = {}
  /\ delta = <<>>
  /\ prev_delta = {}
  /\ notifier_calls = 0
  /\ body = <<>>
  /\ delivery = "none"
  /\ undelivered = {}
  /\ loop_caught = FALSE
  /\ failed_at = "none"
  /\ in_flight = 0
  /\ slept = <<>>
  /\ response = NoResponse

\* ------------------------------------------------- decisions of the code
\* if cleaned_seed_name in TARGET_SEEDS
InWatch(name) == name \in TARGET_SEEDS

\* Variants of the test below: without the membership test, accepting a
\* quantity of zero, and re-admitting a name whose delivery failed.
Qualifies_NoDedup(name, quantity, notified) == quantity > 0

Qualifies_ZeroOk(name, quantity, notified) == quantity >= 0 /\ name \notin notified

Qualifies_Retry(name, quantity, notified) ==
  quantity > 0 /\ (name \notin notified \/ name \in undelivered)

\* if quantity > 0 and cleaned_seed_name not in notified_seeds
Qualifies(name, quantity, notified) == quantity > 0 /\ name \notin notified

\* Variants of the insertion below: starting a fresh set with each new name,
\* and leaving the insertion out.
Add_Reset(notified, name) == {name}

Add_Forget(notified, name) == notified

\* Variant of the insertion below: a name is marked only when mail is on.
Add_OnlyIfEnabled(notified, name) ==
  IF ENABLE_GMAIL_EMAIL THEN notified \cup {name} ELSE notified

\* notified_seeds.add(cleaned_seed_name)
Add(notified, name) == notified \cup {name}

\* send_email_notification: what becomes of one call, given the
\* configuration and how smtplib ends.  Every exception of the delivery is
\* caught inside the function, so the call always returns.
send_email_notification(enabled, complete, smtp) ==
  IF ~enabled THEN "disabled"
  ELSE IF ~complete THEN "incomplete"
  ELSE smtp

\* Variant of the test below: notify on every cycle.
HasNews_Always(lines) == TRUE

\* if newly_available_seeds:
HasNews(lines) == lines # <<>>

\* Variant of the handling below: no except clause, the exception leaves
\* check_stock_async through the finally clause.
Await_Uncaught(at, next, res) ==
  /\ pc' = IF res = "ok" THEN next ELSE "finally"
  /\ outcome' = outcome
  /\ failed_at' = IF res = "ok" THEN failed_at ELSE at
  /\ exc' = IF res = "ok" THEN exc ELSE res

\* The outcome of an awaited call inside the try block of check_stock_async:
\* on "ok" control goes on to next; an exception is caught by one of the two
\* except clauses, logged, and control falls to the finally clause.
Await(at, next, res) ==
  /\ pc' = IF res = "ok" THEN next ELSE "finally"
  /\ outcome' = IF res = "ok" THEN outcome ELSE "Failed"
  /\ failed_at' = IF res = "ok" THEN failed_at ELSE at
  /\ exc' = exc

\* Variant of the loop below: the loop is left after its first item.
AfterItem_Early(k, items) ==
  IF k = 0 /\ items # <<>> THEN "settle" ELSE "dispatch"

\* Where the for loop goes once item k is done.
AfterItem(k, items) == IF k < Len(items) THEN "settle" ELSE "dispatch"

\* ----------------------------------------------------------------- actions
\* while True: loop.run_until_complete(check_stock_async())
StartCycle ==
  /\ pc = "loop"
  /\ pc' = "enter"
  /\ outcome' = "running"
  /\ start_notified' = notified_seeds
  /\ notifier_calls' = 0
  /\ delivery' = "none"
  /\ loop_caught' = FALSE
  /\ failed_at' = "none"
  /\ in_flight' = in_flight + 1
  /\ slept' = <<>>
  /\ UNCHANGED <<notified_seeds, browser, exc, config, response, cycle, delta,
                 prev_delta, body, undelivered>>

\* async with async_playwright() as p: browser = None
EnterPlaywright(res) ==
  /\ pc = "enter"
  /\ IF res = "ok"
     THEN pc' = "launch" /\ browser' = "none" /\ exc' = exc
     ELSE pc' = "loop_except" /\ browser' = browser /\ exc' = res
  /\ in_flight' = IF res = "ok" THEN in_flight ELSE in_flight - 1
  /\ slept' = slept
  /\ UNCHANGED <<notified_seeds, config, response, cycle, observed>>

\* browser = await p.chromium.launch(...)
Launch(res) ==
  /\ pc = "launch"
  /\ Await("launch", "new_page", res)
  /\ browser' = IF res = "ok" THEN "open" ELSE browser
  /\ UNCHANGED <<notified_seeds, config, sched, response, cycle, start_notified, delta,
                 prev_delta, notifier_calls, body, delivery, undelivered,
                 loop_caught>>

\* page = await browser.new_page()
NewPage(res) ==
  /\ pc = "new_page"
  /\ Await("new_page", "goto", res)
  /\ UNCHANGED <<notified_seeds, browser, config, sched, response, cycle, start_notified,
                 delta, prev_delta, notifier_calls, body, delivery,
                 undelivered, loop_caught>>

\* await page.goto(WEBSITE_URL, wait_until="domcontentloaded", timeout=90000)
Goto(res) ==
  /\ pc = "goto"
  /\ Await("goto", "render_wait", res)
  /\ UNCHANGED <<notified_seeds, browser, config, sched, response, cycle, start_notified,
                 delta, prev_delta, notifier_calls, body, delivery,
                 undelivered, loop_caught>>

\* await page.wait_for_timeout(45000)
RenderWait(res) ==
  /\ pc = "render_wait"
  /\ Await("render_wait", "wait_for_selector", res)
  /\ UNCHANGED <<notified_seeds, browser, config, sched, response, cycle, start_notified,
                 delta, prev_delta, notifier_calls, body, delivery,
                 undelivered, loop_caught>>

\* await page.wait_for_selector(seed_item_container_selector, timeout=90000)
WaitForSelector(res) ==
  /\ pc = "wait_for_selector"
  /\ Await("wait_for_selector", "all", res)
  /\ UNCHANGED <<notified_seeds, browser, config, sched, response, cycle, start_notified,
                 delta, prev_delta, notifier_calls, body, delivery,
                 undelivered, loop_caught>>

\* seed_items = await page.locator(...).all(); newly_available_seeds = []
LocateAll(res, items) ==
  /\ pc = "all"
  /\ Await("all", AfterItem(0, items), res)
  /\ seed_items' = IF res = "ok" THEN items ELSE seed_items
  /\ i' = 1
  /\ newly_available_seeds' = <<>>
  /\ UNCHANGED <<notified_seeds, browser, config, sched, response, start_notified, delta,
                 prev_delta, notifier_calls, body, delivery, undelivered,
                 loop_caught>>

\* await page.wait_for_timeout(5000), outside the per-item try
Settle(res) ==
  /\ pc = "settle"
  /\ Await("settle", "extract", res)
  /\ UNCHANGED <<notified_seeds, browser, config, sched, response, cycle, start_notified,
                 delta, prev_delta, notifier_calls, body, delivery,
                 undelivered, loop_caught>>

\* Variant of the block below: no per-item try, a fault while reading an
\* item is caught by the outer except clauses and ends the cycle.
Extract_FaultAborts ==
  /\ pc = "extract"
  /\ LET item == seed_items[i]
         cleaned_seed_name == CleanedSeedName(item.h2)
         quantity == Quantity(item.p)
     IN IF item.fault # "none"
        THEN /\ pc' = "finally"
             /\ outcome' = "Failed"
             /\ UNCHANGED <<newly_available_seeds, notified_seeds, delta, i>>
        ELSE /\ IF /\ InWatch(cleaned_seed_name)
                   /\ Qualifies(cleaned_seed_name, quantity, notified_seeds)
                THEN /\ newly_available_seeds' =
                          Append(newly_available_seeds,
                                 FormatLine(cleaned_seed_name, quantity))
                     /\ notified_seeds' = Add(notified_seeds, cleaned_seed_name)
                     /\ delta' = Append(delta, <<cleaned_seed_name, quantity>>)
                ELSE UNCHANGED <<newly_available_seeds, notified_seeds, delta>>
             /\ pc' = AfterItem(i, seed_items)
             /\ i' = i + 1
             /\ outcome' = outcome
  /\ UNCHANGED <<browser, exc, config, sched, response, seed_items,
                 start_notified, prev_delta, notifier_calls, body, delivery,
                 undelivered, loop_caught, failed_at>>

\* The per-item try block: read name and stock text, clean, parse, filter,
\* and record the item when it qualifies; a fault skips the item (continue).
Extract ==
  /\ pc = "extract"
  /\ LET item == seed_items[i]
         cleaned_seed_name == CleanedSeedName(item.h2)
         quantity == Quantity(item.p)
     IN IF /\ item.fault = "none"
           /\ InWatch(cleaned_seed_name)
           /\ Qualifies(cleaned_seed_name, quantity, notified_seeds)
        THEN /\ newly_available_seeds' =
                  Append(newly_available_seeds, FormatLine(cleaned_seed_name, quantity))
             /\ notified_seeds' = Add(notified_seeds, cleaned_seed_name)
             /\ delta' = Append(delta, <<cleaned_seed_name, quantity>>)
        ELSE UNCHANGED <<newly_available_seeds, notified_seeds, delta>>
  /\ pc' = AfterItem(i, seed_items)
  /\ i' = i + 1
  /\ UNCHANGED <<browser, exc, config, sched, response, seed_items, outcome, start_notified,
                 prev_delta, notifier_calls, body, delivery, undelivered,
                 loop_caught, failed_at>>

\* if newly_available_seeds: send_email_notification(...) else: log
Dispatch(smtp) ==
  /\ pc = "dispatch"
  /\ IF HasNews(newly_available_seeds)
     THEN /\ notifier_calls' = notifier_calls + 1
          /\ body' = Join(newly_available_seeds)
          /\ delivery' = send_email_notification(ENABLE_GMAIL_EMAIL,
                                                 gmail_config_complete, smtp)
          /\ undelivered' = IF delivery' = "failed"
                            THEN undelivered \cup DeltaNames(delta)
                            ELSE undelivered
          /\ outcome' = "Notified"
     ELSE /\ outcome' = "NoChange"
          /\ UNCHANGED <<notifier_calls, body, delivery, undelivered>>
  /\ pc' = "finally"
  /\ UNCHANGED <<notified_seeds, browser, exc, config, sched, response, cycle, start_notified,
                 delta, prev_delta, loop_caught, failed_at>>

\* Variant of the clause below: the browser is closed at the end of the try
\* block only, so not after a caught exception.
Finally_SuccessOnly(res) ==
  /\ pc = "finally"
  /\ IF browser = "open" /\ outcome # "Failed"
     THEN IF res = "ok"
          THEN browser' = "closed" /\ exc' = exc
          ELSE browser' = browser /\ exc' = res
     ELSE UNCHANGED <<browser, exc>>
  /\ pc' = "aexit"
  /\ UNCHANGED <<notified_seeds, config, sched, response, cycle, observed>>

\* finally: if browser: await browser.close()
Finally(res) ==
  /\ pc = "finally"
  /\ IF browser = "open"
     THEN IF res = "ok"
          THEN browser' = "closed" /\ exc' = exc
          ELSE browser' = browser /\ exc' = res
     ELSE UNCHANGED <<browser, exc>>
  /\ pc' = "aexit"
  /\ UNCHANGED <<notified_seeds, config, sched, response, cycle, observed>>

\* Leaving the async with block and the function.  The Playwright driver is
\* stopped, which ends any browser it still runs; "Stock check completed." is
\* logged unless an exception is on its way out; the locals of the call are
\* gone, and the names of the cycle's delta join those of the earlier cycles.
ExitPlaywright ==
  /\ pc = "aexit"
  /\ browser' = IF browser = "open" THEN "closed" ELSE browser
  /\ pc' = IF exc = "none" THEN "sleep" ELSE "loop_except"
  /\ seed_items' = <<>>
  /\ i' = 1
  /\ newly_available_seeds' = <<>>
  /\ prev_delta' = prev_delta \cup DeltaNames(delta)
  /\ delta' = <<>>
  /\ body' = <<>>
  /\ in_flight' = in_flight - 1
  /\ slept' = slept
  /\ UNCHANGED <<notified_seeds, exc, config, response, outcome, start_notified,
                 notifier_calls, delivery, undelivered, loop_caught, failed_at>>

\* Variant of the clause below: no except clause in the loop, the exception
\* ends the thread.
LoopExcept_Dies ==
  /\ pc = "loop_except"
  /\ pc' = "dead"
  /\ UNCHANGED <<notified_seeds, browser, exc, config, sched, response, cycle, observed>>

\* Variant of the clause below: after an exception the loop goes straight
\* to the next cycle.
LoopExcept_NoSleep ==
  /\ pc = "loop_except"
  /\ exc' = "none"
  /\ loop_caught' = TRUE
  /\ pc' = "loop"
  /\ UNCHANGED <<notified_seeds, browser, config, sched, response, cycle,
                 outcome, start_notified, delta, prev_delta, notifier_calls,
                 body, delivery, undelivered, failed_at>>

\* except Exception as e: logger.error("Error in background stock checker loop.")
LoopExcept ==
  /\ pc = "loop_except"
  /\ exc' = "none"
  /\ loop_caught' = TRUE
  /\ pc' = "sleep"
  /\ UNCHANGED <<notified_seeds, browser, config, sched, response, cycle, outcome,
                 start_notified, delta, prev_delta, notifier_calls, body,
                 delivery, undelivered, failed_at>>

\* Variant of the sleep below: the wait doubles after a failed cycle.
Sleep_Backoff ==
  /\ pc = "sleep"
  /\ pc' = "loop"
  /\ slept' = Append(slept, IF outcome = "Failed"
                            THEN 2 * CHECK_INTERVAL_SECONDS
                            ELSE CHECK_INTERVAL_SECONDS)
  /\ in_flight' = in_flight
  /\ UNCHANGED <<notified_seeds, browser, exc, config, response, cycle, observed>>

\* time.sleep(CHECK_INTERVAL_SECONDS)
Sleep ==
  /\ pc = "sleep"
  /\ pc' = "loop"
  /\ slept' = Append(slept, CHECK_INTERVAL_SECONDS)
  /\ in_flight' = in_flight
  /\ UNCHANGED <<notified_seeds, browser, exc, config, response, cycle, observed>>

\* smtplib.SMTP_SSL('smtp.gmail.com', 465) is opened without a timeout, so
\* login and send_message wait on a blocking socket: a relay that accepts
\* the connection and stays silent keeps the call from ever returning.
DeliveryBlocks ==
  /\ pc = "dispatch"
  /\ HasNews(newly_available_seeds)
  /\ ENABLE_GMAIL_EMAIL /\ gmail_config_complete
  /\ pc' = "blocked"
  /\ notifier_calls' = notifier_calls + 1
  /\ body' = Join(newly_available_seeds)
  /\ UNCHANGED <<notified_seeds, browser, exc, config, sched, response, cycle,
                 outcome, start_notified, delta, prev_delta, delivery,
                 undelivered, loop_caught, failed_at>>

\* await browser.close() takes no timeout: a driver that does not answer
\* keeps the call from ever returning.
CloseBlocks ==
  /\ pc = "finally"
  /\ browser = "open"
  /\ pc' = "blocked"
  /\ UNCHANGED <<notified_seeds, browser, exc, config, sched, response, cycle,
                 observed>>

\* The answer of GET /.
HomePayload ==
  [route |-> "/", code |-> 200, status |-> "ok",
   message |-> "Gamersberg Stock Bot is running."]

\* Variant of the answer below: the health route reports the last poll.
HealthPayload_ReportsPoll ==
  [route |-> "/health", code |-> 200,
   status |-> IF outcome = "Failed" THEN "unhealthy" ELSE "healthy"]

\* The answer of GET /health.
HealthPayload == [route |-> "/health", code |-> 200, status |-> "healthy"]

\* @app.route("/") def home()
home ==
  /\ response' = HomePayload
  /\ UNCHANGED <<pc, notified_seeds, browser, exc, config, cycle, observed,
                 sched>>

\* @app.route("/health") def health()
health ==
  /\ response' = HealthPayload
  /\ UNCHANGED <<pc, notified_seeds, browser, exc, config, cycle, observed,
                 sched>>

Next ==
  \/ StartCycle
  \/ \E res \in {"ok", "Exception"} : EnterPlaywright(res)
  \/ \E res \in Results : Launch(res)
  \/ \E res \in Results : NewPage(res)
  \/ \E res \in Results : Goto(res)
  \/ \E res \in Results : RenderWait(res)
  \/ \E res \in Results : WaitForSelector(res)
  \/ \E res \in Results, items \in Snapshots : LocateAll(res, items)
  \/ \E res \in Results : Settle(res)
  \/ Extract
  \/ \E smtp \in SmtpResults : Dispatch(smtp)
  \/ \E res \in {"ok", "Exception"} : Finally(res)
  \/ ExitPlaywright
  \/ LoopExcept
  \/ Sleep

Spec == Init /\ [][Next]_vars

\* The same steps, the container lists drawn from LiveSnapshots.
LiveNext ==
  \/ StartCycle
  \/ \E res \in {"ok", "Exception"} : EnterPlaywright(res)
  \/ \E res \in Results : Launch(res)
  \/ \E res \in Results : NewPage(res)
  \/ \E res \in Results : Goto(res)
  \/ \E res \in Results : RenderWait(res)
  \/ \E res \in Results : WaitForSelector(res)
  \/ \E res \in Results, items \in LiveSnapshots : LocateAll(res, items)
  \/ \E res \in Results : Settle(res)
  \/ Extract
  \/ \E smtp \in SmtpResults : Dispatch(smtp)
  \/ \E res \in {"ok", "Exception"} : Finally(res)
  \/ ExitPlaywright
  \/ LoopExcept
  \/ Sleep

\* The thread always takes its next step: it runs alone on its event loop and
\* every awaited call ends (with a result or an exception).
LiveSpec == Init /\ [][LiveNext]_vars /\ WF_vars(LiveNext)

\* The checker thread when the calls that carry no timeout may block: only
\* the steps the code bounds are sure to end.
TimeoutNext ==
  \/ StartCycle
  \/ \E res \in {"ok", "Exception"} : EnterPlaywright(res)
  \/ \E res \in Results : Launch(res)
  \/ \E res \in Results : NewPage(res)
  \/ \E res \in Results : Goto(res)
  \/ \E res \in Results : RenderWait(res)
  \/ \E res \in Results : WaitForSelector(res)
  \/ \E res \in Results, items \in LiveSnapshots : LocateAll(res, items)
  \/ \E res \in Results : Settle(res)
  \/ Extract
  \/ \E smtp \in SmtpResults : Dispatch(smtp)
  \/ \E res \in {"ok", "Exception"} : Finally(res)
  \/ ExitPlaywright
  \/ LoopExcept
  \/ Sleep
  \/ DeliveryBlocks
  \/ CloseBlocks

TimeoutSpec == Init /\ [][TimeoutNext]_vars /\ WF_vars(TimeoutNext)

\* The checker thread together with the web server of the main thread
\* (threading.Thread(target=run_stock_checker_loop, daemon=True).start();
\* app.run(...)).
ServeNext ==
  \/ StartCycle
  \/ \E res \in {"ok", "Exception"} : EnterPlaywright(res)
  \/ \E res \in Results : Launch(res)
  \/ \E res \in Results : NewPage(res)
  \/ \E res \in Results : Goto(res)
  \/ \E res \in Results : RenderWait(res)
  \/ \E res \in Results : WaitForSelector(res)
  \/ \E res \in Results, items \in LiveSnapshots : LocateAll(res, items)
  \/ \E res \in Results : Settle(res)
  \/ Extract
  \/ \E smtp \in SmtpResults : Dispatch(smtp)
  \/ \E res \in {"ok", "Exception"} : Finally(res)
  \/ ExitPlaywright
  \/ LoopExcept
  \/ Sleep
  \/ home
  \/ health

ServeSpec == Init /\ [][ServeNext]_vars

TypeOK ==
  /\ pc \in {"loop", "enter", "launch", "new_page", "goto", "render_wait",
             "wait_for_selector", "all", "settle", "extract", "dispatch",
             "finally", "aexit", "loop_except", "sleep", "blocked"}
  /\ notified_seeds \subseteq TARGET_SEEDS
  /\ browser \in {"none", "open", "closed"}
  /\ Len(seed_items) <= MaxItems
  /\ \A k \in 1..Len(seed_items) : seed_items[k] \in Containers
  /\ i \in 1..(MaxItems + 1)
  /\ exc \in {"none", "TimeoutError", "Exception"}
  /\ outcome \in {"none", "running", "Notified", "NoChange", "Failed"}
  /\ notifier_calls \in 0..1
  /\ delivery \in {"none", "disabled", "incomplete", "sent", "failed"}
  /\ failed_at \in {"none", "launch", "new_page", "goto", "render_wait",
                    "wait_for_selector", "all", "settle"}
  /\ in_flight \in 0..1
  /\ Len(slept) <= 1

\* ------------------------------------------------------------ properties
\* Positions at which the item loop of the current cycle has run to its end.
ExtractionCompleted ==
  \/ pc = "dispatch"
  \/ pc \in {"finally", "aexit"} /\ outcome \in {"Notified", "NoChange"}

\* Container k of the current cycle has been read without a fault.
Read(k) == k < i /\ seed_items[k].fault = "none"

NameOf(k) == CleanedSeedName(seed_items[k].h2)

QuantityOf(k) == Quantity(seed_items[k].p)

\* Number of entries of the delta d with the given name.
RECURSIVE Occurrences(_, _)
Occurrences(d, name) ==
  IF d = <<>> THEN 0
  ELSE (IF Head(d)[1] = name THEN 1 ELSE 0) + Occurrences(Tail(d), name)

\* C1: once the delta of some cycle includes a name, the delta of no later
\* cycle includes that name, whatever quantities the later snapshots report.
C1_NoRepeatAcrossCycles == DeltaNames(delta) \cap prev_delta = {}

\* A later cycle has read a positive quantity for a name that an earlier
\* delta included.
C1_Witness ==
  /\ pc = "dispatch"
  /\ \E k \in 1..Len(seed_items) :
        Read(k) /\ NameOf(k) \in prev_delta /\ QuantityOf(k) > 0

\* The delta the tracking rule prescribes for the records rs, starting from
\* the set notified: in order, every watched record with a positive quantity
\* whose name is not in the set when the record is reached, the name joining
\* the set at once.
RECURSIVE ExpectedDelta(_, _)
ExpectedDelta(rs, notified) ==
  IF rs = <<>> THEN <<>>
  ELSE LET r == Head(rs)
           name == CleanedSeedName(r.h2)
           quantity == Quantity(r.p)
       IN IF r.fault = "none" /\ name \in TARGET_SEEDS /\ quantity > 0
             /\ name \notin notified
          THEN <<<<name, quantity>>>> \o ExpectedDelta(Tail(rs), notified \cup {name})
          ELSE ExpectedDelta(Tail(rs), notified)

\* C2: when the extraction of a cycle completes, the delta is exactly, in
\* snapshot order, the watched records with quantity > 0 whose name was not
\* in notified_seeds when the record was processed; notified_seeds is its
\* value at cycle start plus the names of the delta; no entry has quantity
\* 0; and the collected lines are the entries of the delta, formatted.
C2_DeltaIsNewlyAvailable ==
  ExtractionCompleted =>
    /\ delta = ExpectedDelta(seed_items, start_notified)
    /\ notified_seeds = start_notified \cup DeltaNames(delta)
    /\ \A k \in 1..Len(delta) : delta[k][2] > 0
    /\ Len(newly_available_seeds) = Len(delta)
    /\ \A k \in 1..Len(delta) :
          newly_available_seeds[k] = FormatLine(delta[k][1], delta[k][2])

\* Scenario A: a watched record with a positive quantity is followed by a
\* watched record with quantity 0; only the first is in the delta.
C2_Witness ==
  /\ ExtractionCompleted
  /\ start_notified = {}
  /\ Len(seed_items) = 2
  /\ Read(1) /\ NameOf(1) = Beanstalk /\ QuantityOf(1) = 3
  /\ Read(2) /\ NameOf(2) = EmberLily /\ QuantityOf(2) = 0
  /\ delta = <<<<Beanstalk, 3>>>>
  /\ notified_seeds = {Beanstalk}

\* C3: notified_seeds is empty at process start and every step leaves it a
\* superset of what it was.
C3_NotifiedOnlyGrows ==
  /\ notified_seeds = {}
  /\ [][notified_seeds \subseteq notified_seeds']_vars

\* A cycle that ended in a failure after it had inserted a name, in a
\* process that had inserted another name before.
C3_Witness ==
  /\ pc = "aexit"
  /\ outcome = "Failed"
  /\ start_notified # {}
  /\ notified_seeds # start_notified

\* C4: when one snapshot holds the same watched name in two or more
\* containers, all with quantity > 0, and the name was not notified before,
\* the delta of the cycle holds the name exactly once, with the quantity of
\* the first occurrence; in no case does a delta hold a name twice.
C4_DuplicateSuppressed ==
  /\ \A name \in DeltaNames(delta) : Occurrences(delta, name) = 1
  /\ \A k1, k2 \in 1..Len(seed_items) :
        ( /\ k1 < k2 /\ Read(k1) /\ Read(k2)
          /\ NameOf(k1) = NameOf(k2)
          /\ NameOf(k1) \in TARGET_SEEDS
          /\ NameOf(k1) \notin start_notified
          /\ \A k \in 1..Len(seed_items) :
                NameOf(k) = NameOf(k1) => Read(k) /\ QuantityOf(k) > 0
          /\ \A k \in 1..(k1 - 1) : NameOf(k) # NameOf(k1) )
        => /\ Occurrences(delta, NameOf(k1)) = 1
           /\ <<NameOf(k1), QuantityOf(k1)>> \in {delta[k] : k \in 1..Len(delta)}

\* Two containers of one snapshot give the same watched name with different
\* positive quantities.
C4_Witness ==
  /\ pc = "dispatch"
  /\ Len(seed_items) = 2
  /\ Read(1) /\ Read(2)
  /\ NameOf(1) = NameOf(2)
  /\ NameOf(1) \in TARGET_SEEDS \ start_notified
  /\ QuantityOf(1) > 0 /\ QuantityOf(2) > 0
  /\ QuantityOf(1) # QuantityOf(2)

\* The label with a trailing " Seed" removed and whitespace trimmed.
SuffixName(label) ==
  LET t == Strip(label)
      n == Len(t) - Len(SeedToken)
  IN IF n >= 0 /\ SubSeq(t, n + 1, Len(t)) = SeedToken
     THEN Strip(SubSeq(t, 1, n))
     ELSE t

\* C5: an item whose normalized name (the label with the " Seed" suffix
\* removed and whitespace trimmed) is not in TARGET_SEEDS never appears in a
\* delta: every entry of the delta is the normalized name and the quantity
\* of a container that was read and whose normalized name is watched.
C5_OnlyWatchedSuffixNames ==
  \A e \in 1..Len(delta) :
    \E k \in 1..Len(seed_items) :
      /\ Read(k)
      /\ SuffixName(seed_items[k].h2) \in TARGET_SEEDS
      /\ SuffixName(seed_items[k].h2) = delta[e][1]
      /\ QuantityOf(k) = delta[e][2]

\* The awaited calls that acquire the rendered page.
AcquisitionSteps ==
  {"launch", "new_page", "goto", "render_wait", "wait_for_selector"}

\* C6: when acquiring the rendered page fails (launch, navigation, selector
\* wait), the cycle is logged as failed, notified_seeds keeps the value it
\* had at cycle start, the notifier is not called, and no exception leaves
\* the try block (the failure does not end the thread).
C6_AcquisitionFailure ==
  failed_at \in AcquisitionSteps =>
    /\ outcome = "Failed"
    /\ notified_seeds = start_notified
    /\ notifier_calls = 0
    /\ delivery = "none"
    /\ pc \in {"finally", "aexit", "sleep", "loop_except", "loop"}
    /\ pc = "finally" => exc = "none"

\* Scenario C in a process that has notified before: the selector wait
\* timed out, the browser was closed, the set is as it was.
C6_Witness ==
  /\ pc = "aexit"
  /\ failed_at = "wait_for_selector"
  /\ browser = "closed"
  /\ start_notified # {}

\* The item loop ran to its end and no container gave a watched record.
NoWatchedRecord ==
  /\ failed_at = "none"
  /\ \A k \in 1..Len(seed_items) :
        ~(seed_items[k].fault = "none" /\ NameOf(k) \in TARGET_SEEDS)

C9_NoRollbackOnDeliveryFailure ==
  /\ undelivered \subseteq notified_seeds
  /\ (delivery = "failed" /\ pc \in {"finally", "aexit"}) =>
        /\ delta # <<>>
        /\ DeltaNames(delta) \subseteq undelivered
        /\ outcome = "Notified"
        /\ pc = "finally" => exc = "none"
  /\ pc \in {"settle", "extract", "dispatch"} =>
        DeltaNames(delta) \cap undelivered = {}

\* A later cycle reads a positive quantity for a name whose delivery failed.
C9_Witness ==
  /\ pc = "dispatch"
  /\ \E k \in 1..Len(seed_items) :
        Read(k) /\ NameOf(k) \in undelivered /\ QuantityOf(k) > 0

\* C10: a cycle that launched a browser has closed it when its finally
\* clause is done, on every path (completion, delivery failure, failure
\* after launch, exception between items), and no browser is open while the
\* loop sleeps or starts the next cycle.
C10_BrowserReleased ==
  /\ (pc = "aexit" /\ exc = "none") => browser # "open"
  /\ pc \in {"sleep", "loop_except", "loop", "enter", "launch"} => browser # "open"

\* The settle wait between two items raised after a name was inserted, and
\* the browser is closed.
C10_Witness ==
  /\ pc = "aexit"
  /\ failed_at = "settle"
  /\ delta # <<>>
  /\ browser = "closed"

\* The lines of the body for the delta d, one per entry, in order.
LinesOf(d) == [k \in 1..Len(d) |-> FormatLine(d[k][1], d[k][2])]

\* C11: in every cycle the notifier is called at most once; when the delta
\* of the cycle is not empty it is called exactly once, and its body is one
\* line "<name>: <quantity> available!" per entry of the delta, in order.
C11_OneNotificationPerDelta ==
  /\ notifier_calls <= 1
  /\ (pc = "aexit" /\ delta # <<>>) =>
        /\ notifier_calls = 1
        /\ body = Join(LinesOf(delta))

\* C12: a cycle whose extraction completes with an empty delta (no watched
\* item qualifies, or every qualifying name is already in notified_seeds)
\* ends as NoChange, and no cycle with an empty delta calls the notifier.
C12_EmptyDeltaNoChange ==
  /\ (pc = "aexit" /\ failed_at = "none" /\ delta = <<>>) => outcome = "NoChange"
  /\ (pc \in {"finally", "aexit"} /\ delta = <<>>) =>
        notifier_calls = 0 /\ delivery = "none"

\* Every qualifying name of the snapshot was notified in an earlier cycle.
C12_Witness ==
  /\ pc = "aexit"
  /\ delta = <<>>
  /\ outcome = "NoChange"
  /\ \E k \in 1..Len(seed_items) :
        Read(k) /\ NameOf(k) \in start_notified /\ QuantityOf(k) > 0

\* C13: when reading one container fails, only that item is skipped: the
\* step adds nothing to the delta, to the lines or to notified_seeds, the
\* cycle is not failed, the loop goes on with the next container, and the
\* loop ends only when every container has been processed.
C13_FaultSkipsOneItem ==
  /\ [][(pc = "extract" /\ seed_items[i].fault # "none") =>
          /\ delta' = delta
          /\ newly_available_seeds' = newly_available_seeds
          /\ notified_seeds' = notified_seeds
          /\ outcome' = outcome
          /\ i' = i + 1
          /\ pc' = IF i < Len(seed_items) THEN "settle" ELSE "dispatch"]_vars
  /\ [](pc = "dispatch" => i = Len(seed_items) + 1)

\* The first container could not be read and the second one is in the delta.
C13_Witness ==
  /\ pc = "dispatch"
  /\ Len(seed_items) = 2
  /\ seed_items[1].fault # "none"
  /\ seed_items[2].fault = "none"
  /\ delta = <<<<NameOf(2), QuantityOf(2)>>>>

\* C14: every started poll cycle eventually ends: no call of the cycle
\* waits without a bound, so a cycle that has started reaches the point
\* where check_stock_async is left.
C14_EveryCycleEnds ==
  /\ [](pc # "blocked")
  /\ (pc = "enter") ~> (pc \in {"sleep", "loop_except"})

\* C15: poll cycles are strictly sequential: never two calls of
\* check_stock_async in flight, none in flight while the loop sleeps or
\* handles an exception, and a cycle starts only from the top of the loop,
\* with no call in flight and, after the first cycle, with the sleep that
\* follows the previous cycle finished.
C15_CyclesSequential ==
  /\ [](in_flight <= 1)
  /\ [](pc \in {"loop", "sleep", "loop_except"} => in_flight = 0)
  /\ [][(pc # "enter" /\ pc' = "enter") =>
          /\ pc = "loop"
          /\ in_flight = 0
          /\ outcome # "none" => slept # <<>>]_vars

\* A cycle has returned, the sleep after it has finished, and the next
\* cycle is about to start.
C15_Witness ==
  /\ pc = "loop"
  /\ outcome \in {"Notified", "NoChange", "Failed"}
  /\ in_flight = 0
  /\ slept # <<>>

\* C16: the web server answers GET / and GET /health in every state of the
\* checker, always with the same two payloads whatever the polls did, and
\* answering leaves notified_seeds and the checker alone.
C16_ResponderIndependent ==
  /\ [](ENABLED home /\ ENABLED health)
  /\ [](response \in
          { [route |-> "none"],
            [route |-> "/", code |-> 200, status |-> "ok",
             message |-> "Gamersberg Stock Bot is running."],
            [route |-> "/health", code |-> 200, status |-> "healthy"] })
  /\ [][response' # response =>
          /\ notified_seeds' = notified_seeds
          /\ pc' = pc
          /\ outcome' = outcome]_vars

\* The health route was answered while the last cycle had failed and the
\* loop was asleep.
C16_Witness ==
  /\ pc = "sleep"
  /\ outcome = "Failed"
  /\ response.route = "/health"

\* C17: the notifier is called only after every container of the cycle has
\* been processed, and its body holds the entries of this cycle's delta
\* only: each one read from this cycle's containers, none from an earlier
\* cycle's delta.
C17_NotifyAfterAllItems ==
  /\ pc \in {"settle", "extract", "dispatch"} => notifier_calls = 0
  /\ (pc \in {"finally", "aexit"} /\ notifier_calls > 0) =>
        /\ i = Len(seed_items) + 1
        /\ body = Join(LinesOf(delta))
        /\ DeltaNames(delta) \cap prev_delta = {}
        /\ \A e \in 1..Len(delta) :
              \E k \in 1..Len(seed_items) :
                 Read(k) /\ NameOf(k) = delta[e][1] /\ QuantityOf(k) = delta[e][2]

\* A notification was sent for a cycle of two containers, in a process
\* whose earlier cycles had notified as well.
C17_Witness ==
  /\ pc = "aexit"
  /\ notifier_calls = 1
  /\ Len(seed_items) = 2
  /\ prev_delta # {}
  /\ delta # <<>>

\* C18: after every cycle, whatever its outcome, the loop sleeps exactly
\* once, for CHECK_INTERVAL_SECONDS, before the next cycle; no sleep happens
\* inside a cycle.
C18_ConstantSleep ==
  /\ (pc = "loop" /\ outcome # "none") => slept = <<CHECK_INTERVAL_SECONDS>>
  /\ pc \notin {"loop", "blocked"} => slept = <<>>

\* The loop has slept after a cycle that failed and whose exception on the
\* way out it caught.
C18_Witness ==
  /\ pc = "loop"
  /\ outcome = "Failed"
  /\ loop_caught
  /\ slept = <<CHECK_INTERVAL_SECONDS>>

\* C19: no name is marked notified without a notification dispatched for
\* it: at the end of a cycle every name inserted during the cycle is in the
\* body of a call of the notifier made in that cycle.
C19_MarkedImpliesDispatched ==
  pc = "aexit" =>
    \A name \in notified_seeds \ start_notified :
      /\ notifier_calls >= 1
      /\ \E k \in 1..Len(delta) : delta[k][1] = name
      /\ body = Join(LinesOf(delta))

\* Positions between the start of a cycle and the return of check_stock_async.
InCycle ==
  pc \in {"enter", "launch", "new_page", "goto", "render_wait",
          "wait_for_selector", "all", "settle", "extract", "dispatch",
          "finally", "aexit"}

\* C20: notified_seeds and the delta are determined by the snapshots and the
\* extraction failures alone: under every configuration of the notifier and
\* every result of the delivery they are, at every point of a cycle, the
\* value ExpectedDelta gives for the containers processed so far (a function
\* that takes no configuration and no delivery result), and the set changes
\* in no other step than the processing of an item; so two runs fed the
\* same snapshots and failures agree on both.  A delivery is attempted only
\* when mail is enabled and the configuration is complete.
C20_TrackerIgnoresNotifier ==
  /\ [](InCycle =>
          /\ delta = ExpectedDelta(SubSeq(seed_items, 1, i - 1), start_notified)
          /\ notified_seeds = start_notified \cup DeltaNames(delta))
  /\ [][pc # "extract" => notified_seeds' = notified_seeds]_vars
  /\ [](delivery \in {"sent", "failed"} =>
          ENABLE_GMAIL_EMAIL /\ gmail_config_complete)

\* A cycle with mail disabled or not configured has marked a name, in a
\* process that had marked another one before.
C20_Witness ==
  /\ pc = "aexit"
  /\ delivery \in {"disabled", "incomplete"}
  /\ delta # <<>>
  /\ start_notified # {}

====
